---- MODULE Spec2Model ----
(***************************************************************************)
(* Goal Progress & Statistics Engine of life-on-track                      *)
(* (server/src/routes/goals.ts, server/src/db/index.ts).                   *)
(*                                                                         *)
(* Calendar dates are kept the way the program keeps them: the store holds *)
(* ISO "YYYY-MM-DD" strings, modelled as triples <<y, m, d>> whose         *)
(* lexicographic order is the string order SQLite and JavaScript compare   *)
(* with.  The clock (new Date()) is a day number counted from 1970-01-01;  *)
(* the goal, task and work-log routes are checked on a server running in   *)
(* UTC, where local and UTC calendar fields agree; the recurring-expense   *)
(* generator is checked in zones on either side of UTC as well.            *)
(***************************************************************************)
EXTENDS Integers, Sequences, FiniteSets, TLC

VARIABLES
    goals,          \* table goals: id -> row
    goal_relations, \* table goal_relations: set of <<parent_goal_id, child_goal_id>>
    goal_logs,      \* table goal_logs: set of rows
    now,            \* the day new Date() falls on
    last,           \* the request handled last and its response
    pc,             \* position of each in-flight POST /:id/logs handler
    local,          \* that handler's request and local constants
    stats,          \* the body of the last GET /:id/stats response
    tasks,          \* table tasks: id -> row
    subtasks,       \* table subtasks: set of rows
    work_logs,      \* table work_logs: set of rows
    recurring_expenses, \* table recurring_expenses: id -> row
    expenses,       \* table expenses: set of rows
    zone,           \* the server's time zone: -1 west of UTC, 0 UTC, 1 east of UTC
    localNow        \* the day new Date() falls on in the server's time zone

\* the tables the goal routes never touch
otherTables == <<tasks, subtasks, work_logs, recurring_expenses, expenses>>

\* the tables the task, work-log and expense routes never touch
goalTables == <<goals, goal_relations, goal_logs, pc, local, stats>>

\* the server's zone and local date; now is the UTC date
wallClock == <<zone, localNow>>

vars == <<goals, goal_relations, goal_logs, now, last, pc, local, stats, otherTables, wallClock>>

\* a server running in UTC: local and UTC calendar fields agree
UTC == zone = 0 /\ localNow = now

\* CREATE TABLE IF NOT EXISTS: the other tables start empty
EmptyOtherTables ==
    /\ tasks = <<>>
    /\ subtasks = {}
    /\ work_logs = {}
    /\ recurring_expenses = <<>>
    /\ expenses = {}

----------------------------------------------------------------------------
(* Bounds *)

FirstDay == 19903          \* 2024-06-29, a Saturday
NumDays == 3               \* days the log dates range over
MaxLogs == 2               \* rows the log table may hold
MaxValue == 1              \* largest logged value
MinValue == 0              \* smallest logged value

Days == FirstDay .. (FirstDay + NumDays - 1)
Values == MinValue .. MaxValue
NoteTexts == {"a"}

----------------------------------------------------------------------------
(* JavaScript and SQL values *)

Undefined == [k |-> "undefined", v |-> 0]
JsNull == [k |-> "null", v |-> 0]
Num(x) == [k |-> "val", v |-> x]

NoNote == [k |-> "undefined", s |-> ""]
Str(x) == [k |-> "val", s |-> x]
SqlNull == [k |-> "null", s |-> ""]

NoDate == [k |-> "undefined", d |-> <<>>]
DateStr(x) == [k |-> "val", d |-> x]

\* note || null
NoteOrNull(note) == IF note.k = "val" /\ note.s # "" THEN Str(note.s) ELSE SqlNull

\* COALESCE(a, b)
Coalesce(a, b) == IF a.k = "null" THEN b ELSE a

----------------------------------------------------------------------------
(* Dates *)

\* Date.prototype.toISOString().split('T')[0]: the civil date of a day number
toISODate(z0) ==
    LET z == z0 + 719468
        era == z \div 146097
        doe == z - era * 146097
        yoe == (doe - doe \div 1460 + doe \div 36524 - doe \div 146096) \div 365
        doy == doe - (365 * yoe + yoe \div 4 - yoe \div 100)
        mp == (5 * doy + 2) \div 153
        d == doy - (153 * mp + 2) \div 5 + 1
        m == IF mp < 10 THEN mp + 3 ELSE mp - 9
        y == yoe + era * 400 + (IF m <= 2 THEN 1 ELSE 0)
    IN  <<y, m, d>>

\* new Date("YYYY-MM-DD").getTime() / 86400000: the day number of a civil date
parseDate(iso) ==
    LET y == IF iso[2] <= 2 THEN iso[1] - 1 ELSE iso[1]
        era == y \div 400
        yoe == y - era * 400
        mp == IF iso[2] > 2 THEN iso[2] - 3 ELSE iso[2] + 9
        doy == (153 * mp + 2) \div 5 + iso[3] - 1
        doe == yoe * 365 + yoe \div 4 - yoe \div 100 + doy
    IN  era * 146097 + doe - 719468

\* a.log_date >= b as the strings compare
StrGE(a, b) ==
    \/ a[1] > b[1]
    \/ a[1] = b[1] /\ a[2] > b[2]
    \/ a[1] = b[1] /\ a[2] = b[2] /\ a[3] >= b[3]

\* Date.prototype.getDay(): 0 = Sunday
getDay(day) == (day + 4) % 7

\* new Date().toISOString().split('T')[0]
getToday(t) == toISODate(t)

getWeekStartMonday(t) ==
    toISODate(t - getDay(t) + (IF getDay(t) = 0 THEN -6 ELSE 1))

\* getWeekStart(): the Sunday of the week, the helper the routes import
getWeekStart(t) == toISODate(t - getDay(t))

\* new Date().toISOString().slice(0, 7) + '-01'
getMonthStart(t) == <<toISODate(t)[1], toISODate(t)[2], 1>>

Dates == {toISODate(d) : d \in Days}

----------------------------------------------------------------------------
(* The store *)

NoSuchGoal == 0            \* an id that names no goal
GoalTypes == {"reading", "frequency", "numeric"}
Periods == {"daily", "weekly", "monthly"}

\* A row of goals as INSERT INTO goals leaves it (goals.ts:226-237 with the
\* column defaults of the schema).  total_pages NULL is written 0: the one
\* place that reads the column tests its truthiness.
NewGoalRow(goalType, targetValue, totalPages, frequencyPeriod) ==
    [goal_type |-> goalType,
     target_value |-> targetValue,
     current_value |-> 0,
     total_pages |-> IF goalType = "reading" THEN totalPages ELSE 0,
     current_page |-> 0,
     frequency_period |-> IF goalType = "frequency" THEN frequencyPeriod ELSE "null",
     is_active |-> 1]

LogsOf(logs, id) == {l \in logs : l.goal_id = id}

\* AUTOINCREMENT: one more than the largest rowid (rows are never deleted)
NextLogId(logs) ==
    IF logs = {} THEN 1
    ELSE 1 + (CHOOSE n \in {l.id : l \in logs} : \A l \in logs : l.id <= n)

\* ON CONFLICT(goal_id, log_date): the row the insert collides with
ConflictRows(logs, id, date) == {l \in logs : l.goal_id = id /\ l.log_date = date}

UpsertNoteOverwrite(excluded, old) == excluded

\* DO UPDATE SET note = COALESCE(excluded.note, note)
UpsertNote(excluded, old) == Coalesce(excluded, old)

\* INSERT INTO goal_logs ... ON CONFLICT(goal_id, log_date) DO UPDATE SET ...
upsertGoalLog(logs, id, date, value, note) ==
    IF ConflictRows(logs, id, date) = {}
    THEN logs \cup {[id |-> NextLogId(logs), goal_id |-> id, log_date |-> date,
                     value |-> value, note |-> note]}
    ELSE {IF l \in ConflictRows(logs, id, date)
          THEN [l EXCEPT !.value = value, !.note = UpsertNote(note, l.note)]
          ELSE l : l \in logs}

\* SELECT COUNT(*) FROM goal_logs WHERE goal_id = ? AND log_date >= ? AND value = 1
countFrequencyLogs(logs, id, periodStart) ==
    Cardinality({l \in LogsOf(logs, id) : StrGE(l.log_date, periodStart) /\ l.value = 1})

\* periodStart of POST /:id/logs
logPeriodStart(goal, date, t) ==
    IF goal.frequency_period = "weekly" THEN getWeekStart(t)
    ELSE IF goal.frequency_period = "monthly" THEN getMonthStart(t)
    ELSE date

\* periodStart of PATCH /:goalId/logs/:logId
editPeriodStart(goal, t) ==
    IF goal.frequency_period = "weekly" THEN getWeekStart(t)
    ELSE IF goal.frequency_period = "monthly" THEN getMonthStart(t)
    ELSE getToday(t)

\* SELECT value FROM goal_logs WHERE goal_id = ? ORDER BY log_date DESC, id DESC
\* LIMIT 1, then ?.value || 0
latestValue(logs, id) ==
    IF LogsOf(logs, id) = {} THEN 0
    ELSE LET top == CHOOSE l \in LogsOf(logs, id) : \A m \in LogsOf(logs, id) :
                        \/ l.log_date # m.log_date /\ StrGE(l.log_date, m.log_date)
                        \/ l.log_date = m.log_date /\ l.id >= m.id
         IN  top.value

UniqueOff(logs, row) == FALSE

\* UNIQUE(goal_id, log_date) as UPDATE goal_logs checks it
UniqueViolation(logs, row) ==
    \E l \in logs : l.id # row.id /\ l.goal_id = row.goal_id /\ l.log_date = row.log_date

----------------------------------------------------------------------------
(* Requests and responses *)

\* last: the operation, its status and, when it succeeded, the goal and the
\* log row it wrote, the value and note of the body, the log date it resolved
\* (POST) or was given (PATCH), and whether the upsert met an existing row
NoRequest ==
    [op |-> "none", status |-> 0, id |-> NoSuchGoal, logId |-> 0,
     value |-> Undefined, note |-> NoNote, logDate |-> NoDate, conflict |-> FALSE]

Failed(op, status) == [NoRequest EXCEPT !.op = op, !.status = status]

Idle == pc = [p \in DOMAIN pc |-> "idle"]

ValueInputs == {Undefined, JsNull} \cup {Num(v) : v \in Values}
NoteInputs == {NoNote, Str("")} \cup {Str(n) : n \in NoteTexts}
DateInputs == {NoDate} \cup {DateStr(d) : d \in Dates}

----------------------------------------------------------------------------
(* POST /:id/logs, handled without interleaving *)

ProgressAfterLogLatest(goal, logs, id, date, value, t) ==
    IF goal.goal_type = "reading" THEN [goal EXCEPT !.current_page = latestValue(logs, id)]
    ELSE IF goal.goal_type = "frequency"
    THEN [goal EXCEPT !.current_value =
              countFrequencyLogs(logs, id, logPeriodStart(goal, date, t))]
    ELSE [goal EXCEPT !.current_value = latestValue(logs, id)]

\* the UPDATE goals of the type dispatch (goals.ts:385-414), on the log
\* table the upsert left
ProgressAfterLog(goal, logs, id, date, value, t) ==
    IF goal.goal_type = "reading" THEN [goal EXCEPT !.current_page = value]
    ELSE IF goal.goal_type = "frequency"
    THEN [goal EXCEPT !.current_value =
              countFrequencyLogs(logs, id, logPeriodStart(goal, date, t))]
    ELSE [goal EXCEPT !.current_value = value]

valueFalsy(value) == value.k # "val" \/ value.v = 0

\* value === undefined || value === null (goals.ts:368)
valueAbsent(value) == value.k # "val"

LogProgress(id, value, note, logDate) ==
    LET date == IF logDate.k = "val" THEN logDate.d ELSE getToday(now)
        row == CHOOSE l \in ConflictRows(goal_logs', id, date) : TRUE
    IN  /\ Idle
        /\ IF id \notin DOMAIN goals
           THEN /\ last' = [Failed("LogProgress", 404) EXCEPT !.id = id, !.value = value]
                /\ UNCHANGED <<goals, goal_logs>>
           ELSE IF valueAbsent(value)
           THEN /\ last' = [Failed("LogProgress", 400) EXCEPT !.id = id, !.value = value]
                /\ UNCHANGED <<goals, goal_logs>>
           ELSE /\ ConflictRows(goal_logs, id, date) # {} \/ Cardinality(goal_logs) < MaxLogs
                /\ goal_logs' = upsertGoalLog(goal_logs, id, date, value.v, NoteOrNull(note))
                /\ goals' = [goals EXCEPT ![id] =
                                ProgressAfterLog(goals[id], goal_logs', id, date, value.v, now)]
                /\ last' = [op |-> "LogProgress", status |-> 201, id |-> id,
                            logId |-> row.id, value |-> value, note |-> note,
                            logDate |-> DateStr(date),
                            conflict |-> ConflictRows(goal_logs, id, date) # {}]
        /\ UNCHANGED <<goal_relations, now, pc, local, stats, otherTables, wallClock>>

----------------------------------------------------------------------------
(* PATCH /:goalId/logs/:logId *)

\* the row UPDATE goal_logs SET ... WHERE id = ? writes (goals.ts:500-523)
EditedRow(row, value, note, logDate) ==
    [row EXCEPT !.value = IF value.k = "undefined" THEN @ ELSE value.v,
                !.note = IF note.k = "undefined" THEN @ ELSE NoteOrNull(note),
                !.log_date = IF logDate.k = "undefined" THEN @ ELSE logDate.d]

\* "Recalculate goal progress if value changed" (goals.ts:525-568)
ProgressAfterEdit(goal, logs, id, t) ==
    IF goal.goal_type = "reading"
    THEN [goal EXCEPT !.current_page = latestValue(logs, id)]
    ELSE IF goal.goal_type = "frequency"
    THEN [goal EXCEPT !.current_value =
              countFrequencyLogs(logs, id, editPeriodStart(goal, t))]
    ELSE [goal EXCEPT !.current_value = latestValue(logs, id)]

existingLogOfAnyGoal(logs, goalId, logId) == {l \in logs : l.id = logId}

\* SELECT * FROM goal_logs WHERE id = ? AND goal_id = ? (goals.ts:480-483)
existingLog(logs, goalId, logId) == {l \in logs : l.id = logId /\ l.goal_id = goalId}

EditLog(goalId, logId, value, note, logDate) ==
    LET existing == existingLog(goal_logs, goalId, logId)
    IN  /\ Idle
        /\ IF existing = {} \/ goalId \notin DOMAIN goals
           THEN /\ last' = [Failed("EditLog", 404) EXCEPT !.id = goalId, !.logId = logId]
                /\ UNCHANGED <<goals, goal_logs>>
           ELSE LET old == CHOOSE l \in existing : TRUE
                    new == EditedRow(old, value, note, logDate)
                IN  IF value.k = "null" \/ UniqueViolation(goal_logs, new)
                    THEN \* NOT NULL or UNIQUE constraint failed: the catch block answers
                         /\ last' = [Failed("EditLog", 500) EXCEPT
                                         !.id = goalId, !.logId = logId,
                                         !.value = value, !.logDate = logDate]
                         /\ UNCHANGED <<goals, goal_logs>>
                    ELSE /\ goal_logs' = (goal_logs \ {old}) \cup {new}
                         /\ goals' = IF value.k # "undefined"
                                     THEN [goals EXCEPT ![goalId] =
                                              ProgressAfterEdit(goals[goalId], goal_logs', goalId, now)]
                                     ELSE goals
                         /\ last' = [op |-> "EditLog", status |-> 200, id |-> goalId,
                                     logId |-> logId, value |-> value, note |-> note,
                                     logDate |-> logDate, conflict |-> FALSE]
        /\ UNCHANGED <<goal_relations, now, pc, local, stats, otherTables, wallClock>>

----------------------------------------------------------------------------
(* GET /:id/stats *)

StatsLogLimit == 30        \* LIMIT 30
StreakDays == 365          \* for (let i = 0; i < 365; i++)
DoubleBits == 53           \* significant bits of a JavaScript number

\* Math.round(n / d * k) for integers: the nearest integer, halves upward
RoundRatio(n, d) ==
    IF d > 0 THEN (2 * n + d) \div (2 * d) ELSE (2 * (0 - n) + (0 - d)) \div (2 * (0 - d))

\* Math.ceil(n / d) for integers
CeilRatio(n, d) ==
    IF d > 0 THEN 0 - ((0 - n) \div d) ELSE 0 - (n \div (0 - d))

RECURSIVE Pow2(_)
Pow2(k) == IF k <= 0 THEN 1 ELSE 2 * Pow2(k - 1)

RECURSIVE binaryExponent(_, _)
\* the exponent e of the double nearest n / d: 2^e <= n / d < 2^(e + 1)
binaryExponent(n, d) ==
    IF n >= 2 * d THEN binaryExponent(n, 2 * d) + 1
    ELSE IF n < d THEN binaryExponent(2 * n, d) - 1
    ELSE 0

RECURSIVE pow2Mod10(_)
pow2Mod10(k) == IF k <= 0 THEN 1 ELSE (2 * pow2Mod10(k - 1)) % 10

\* the first decimal digit of what is left of tenths / 10 after the 53
\* significant bits a double keeps: below 5 the stored velocity is under
\* tenths / 10 by that much of the last bit, above 5 it is over it
droppedTenths(tenths) ==
    (tenths * pow2Mod10(DoubleBits - 1 - binaryExponent(tenths, 10))) % 10

\* Math.ceil(pagesRemaining / velocity) in IEEE-754 double arithmetic, for
\* the velocity stored as the double nearest tenths / 10 (goals.ts:646, 650).
\* When tenths does not divide 10 * pagesRemaining the quotient is far from
\* an integer and rounding cannot move its ceiling. When it does, the exact
\* quotient is an integer n, the computed one is n * (tenths / 10) / velocity,
\* and it rounds to the double above n when it passes the middle of the gap
\* between n and that double, which is one unit in the last place of n, or
\* half that below a negative power of two.
jsCeilDivide(pagesRemaining, tenths) ==
    IF (10 * pagesRemaining) % tenths # 0 THEN CeilRatio(10 * pagesRemaining, tenths)
    ELSE LET n == (10 * pagesRemaining) \div tenths
             mag == IF n < 0 THEN 0 - n ELSE n
             r == droppedTenths(tenths)
             ex == binaryExponent(tenths, 10)
             up == Pow2(ex)
             down == Pow2(0 - ex)
             en == binaryExponent(mag, 1)
             sharp == IF mag = Pow2(en) THEN 2 ELSE 1
         IN  IF n = 0 THEN 0
             ELSE IF n > 0 /\ r \in 1 .. 4
             THEN IF 2 * n * r * up >= Pow2(en) * tenths * down THEN n + 1 ELSE n
             ELSE IF n < 0 /\ r \in 6 .. 9
             THEN IF sharp * 2 * mag * (10 - r) * up > Pow2(en) * tenths * down
                  THEN n + 1 ELSE n
             ELSE n

Min(a, b) == IF a <= b THEN a ELSE b
Max(a, b) == IF a >= b THEN a ELSE b

\* SELECT * FROM goal_logs WHERE goal_id = ? ORDER BY log_date DESC LIMIT 30
recentLogs(logs, id) ==
    {l \in LogsOf(logs, id) :
        Cardinality({m \in LogsOf(logs, id) :
                        m.log_date # l.log_date /\ StrGE(m.log_date, l.log_date)}) < StatsLogLimit}

\* the sub-goals query: active children over goal_relations
subGoalsOf(gs, rels, id) ==
    {c \in DOMAIN gs : <<id, c>> \in rels /\ gs[c].is_active = 1}

\* periodStart of calculateGoalStats
statsPeriodStart(goal, t) ==
    IF goal.frequency_period = "weekly" THEN getWeekStart(t)
    ELSE IF goal.frequency_period = "monthly" THEN getMonthStart(t)
    ELSE getToday(t)

RECURSIVE streakLoopStrict(_, _, _, _)
streakLoopStrict(logs, t, i, streak) ==
    IF i >= StreakDays THEN streak
    ELSE IF \E l \in logs : l.log_date = toISODate(t - i)
         THEN streakLoopStrict(logs, t, i + 1, streak + 1)
         ELSE streak

breaksStreakAfterYesterday(i) == i > 1

\* a day without a log ends the scan unless it is today (goals.ts:690)
breaksStreak(i) == i > 0

RECURSIVE streakLoop(_, _, _, _)
\* the streak loop from offset i on (goals.ts:681-693)
streakLoop(logs, t, i, streak) ==
    IF i >= StreakDays THEN streak
    ELSE IF \E l \in logs : l.log_date = toISODate(t - i)
         THEN streakLoop(logs, t, i + 1, streak + 1)
         ELSE IF breaksStreak(i) THEN streak
              ELSE streakLoop(logs, t, i + 1, streak)

NoVelocity == [velocity |-> JsNull, estimatedFinishDate |-> [k |-> "null", d |-> <<>>],
               daysRemaining |-> JsNull]

velocityDropped(tenths) == NoVelocity

\* a velocity that is not above 0 is reported, without a projection: the
\* assignment at goals.ts:646 comes before the test at goals.ts:648
velocityOnly(tenths) == [NoVelocity EXCEPT !.velocity = Num(tenths)]

\* velocity (in tenths of a page per day), daysRemaining and
\* estimatedFinishDate of a reading goal (goals.ts:633-655)
readingVelocity(goal, logs, t) ==
    IF Cardinality(logs) < 2 THEN NoVelocity
    ELSE LET firstLog == CHOOSE l \in logs : \A m \in logs : parseDate(l.log_date) <= parseDate(m.log_date)
             lastLog == CHOOSE l \in logs : \A m \in logs : parseDate(l.log_date) >= parseDate(m.log_date)
             daysDiff == Max(1, parseDate(lastLog.log_date) - parseDate(firstLog.log_date))
             pagesDiff == lastLog.value - firstLog.value
             tenths == RoundRatio(10 * pagesDiff, daysDiff)
             days == jsCeilDivide(goal.total_pages - goal.current_page, tenths)
         IN  IF tenths > 0
             THEN [velocity |-> Num(tenths),
                   estimatedFinishDate |-> [k |-> "val", d |-> toISODate(t + days)],
                   daysRemaining |-> Num(days)]
             ELSE velocityOnly(tenths)

statsPeriodLogsAnyValue(goal, logs, t) ==
    {l \in logs : StrGE(l.log_date, statsPeriodStart(goal, t))}

\* logs.filter(l => l.log_date >= periodStart && l.value === 1)
statsPeriodLogs(goal, logs, t) ==
    {l \in logs : StrGE(l.log_date, statsPeriodStart(goal, t)) /\ l.value = 1}

isCompletedAtAnyTarget(sg) == sg.current_value >= sg.target_value

\* the filter of subGoalsCompleted (goals.ts:623-628)
isCompleted(sg) == sg.target_value > 0 /\ sg.current_value >= sg.target_value

\* Math.min(progressPercent, 100)
clampPercent(p) == Min(p, 100)

calculateGoalStats(goal, logs, subGoalRows, t) ==
    LET subGoalsCompleted ==
            Cardinality({c \in DOMAIN subGoalRows : isCompleted(subGoalRows[c])})
        isReading == goal.goal_type = "reading" /\ goal.total_pages # 0
        periodLogs == statsPeriodLogs(goal, logs, t)
        progressPercent ==
            IF isReading THEN RoundRatio(100 * goal.current_page, goal.total_pages)
            ELSE IF goal.goal_type = "frequency"
            THEN IF goal.target_value > 0
                 THEN RoundRatio(100 * Cardinality(periodLogs), goal.target_value) ELSE 0
            ELSE IF goal.goal_type = "numeric"
            THEN IF DOMAIN subGoalRows # {}
                 THEN RoundRatio(100 * subGoalsCompleted, Cardinality(DOMAIN subGoalRows))
                 ELSE IF goal.target_value > 0
                      THEN RoundRatio(100 * goal.current_value, goal.target_value) ELSE 0
            ELSE 0
        reading == IF isReading THEN readingVelocity(goal, logs, t) ELSE NoVelocity
    IN  [subGoalsCompleted |-> subGoalsCompleted,
         velocity |-> reading.velocity,
         estimatedFinishDate |-> reading.estimatedFinishDate,
         daysRemaining |-> reading.daysRemaining,
         progressPercent |-> clampPercent(progressPercent),
         streak |-> streakLoop(logs, t, 0, 0),
         periodProgress |-> IF ~isReading /\ goal.goal_type = "frequency"
                            THEN [k |-> "val", current |-> Cardinality(periodLogs),
                                  target |-> goal.target_value]
                            ELSE [k |-> "null", current |-> 0, target |-> 0]]

NoStats == [status |-> 0, id |-> NoSuchGoal, body |-> calculateGoalStats(
               NewGoalRow("numeric", 0, 0, "null"), {}, <<>>, 0)]

GetStatsMemoised(id) ==
    /\ Idle
    /\ IF id \notin DOMAIN goals
       THEN stats' = [NoStats EXCEPT !.status = 404]
       ELSE IF stats.status = 200
       THEN stats' = [stats EXCEPT !.id = id]
       ELSE stats' = [status |-> 200, id |-> id,
                      body |-> calculateGoalStats(
                                  goals[id], recentLogs(goal_logs, id),
                                  [c \in subGoalsOf(goals, goal_relations, id) |-> goals[c]],
                                  now)]
    /\ UNCHANGED <<goals, goal_relations, goal_logs, now, last, pc, local, otherTables, wallClock>>

GetStats(id) ==
    /\ Idle
    /\ IF id \notin DOMAIN goals
       THEN stats' = [NoStats EXCEPT !.status = 404]
       ELSE stats' = [status |-> 200, id |-> id,
                      body |-> calculateGoalStats(
                                  goals[id], recentLogs(goal_logs, id),
                                  [c \in subGoalsOf(goals, goal_relations, id) |-> goals[c]],
                                  now)]
    /\ UNCHANGED <<goals, goal_relations, goal_logs, now, last, pc, local, otherTables, wallClock>>

----------------------------------------------------------------------------
(* The log engine on one goal *)

Procs == {1, 2}

NoLocal == [id |-> NoSuchGoal, value |-> Undefined, note |-> NoNote, logDate |-> NoDate,
            date |-> <<>>, goal_type |-> "null", frequency_period |-> "null",
            count |-> 0, status |-> 0]

MaxTarget == 2             \* largest target_value / total_pages of a created goal

\* the clock reads one of the last two days the log dates range over
ClockDays == {FirstDay + NumDays - 2, FirstDay + NumDays - 1}

Init ==
    /\ \E goalType \in GoalTypes, period \in Periods :
          /\ goalType # "frequency" => period = "weekly"
          /\ goals = (1 :> NewGoalRow(goalType, MaxTarget, MaxTarget, period))
    /\ goal_relations = {}
    /\ goal_logs = {}
    /\ now \in ClockDays
    /\ last = NoRequest
    /\ pc = [p \in Procs |-> "idle"]
    /\ local = [p \in Procs |-> NoLocal]
    /\ stats = NoStats
    /\ EmptyOtherTables
    /\ UTC

GoalIdInputs == DOMAIN goals \cup {NoSuchGoal}
LogIdInputs == 1 .. (MaxLogs + 1)

\* a request body is enumerated as far as its handler reads it
BodyAfter(read, inputs, unread) == IF read THEN inputs ELSE {unread}

Next ==
    \/ \E id \in GoalIdInputs :
       \E value \in BodyAfter(id \in DOMAIN goals, ValueInputs, Undefined) :
       \E note \in BodyAfter(value.k = "val", NoteInputs, NoNote),
          logDate \in BodyAfter(value.k = "val", DateInputs, NoDate) :
            LogProgress(id, value, note, logDate)
    \/ \E id \in GoalIdInputs, logId \in LogIdInputs :
       \E value \in BodyAfter(\E l \in goal_logs : l.id = logId /\ l.goal_id = id,
                              ValueInputs, Undefined) :
       \E note \in BodyAfter(value.k # "null", NoteInputs, NoNote),
          logDate \in BodyAfter(value.k # "null", DateInputs, NoDate) :
            EditLog(id, logId, value, note, logDate)

Spec == Init /\ [][Next]_vars

----------------------------------------------------------------------------
(* Calendar notions the properties are stated in *)

\* the day number a stored log date denotes
DayNumber(iso) == CHOOSE d \in (FirstDay - 40) .. (FirstDay + NumDays + 40) : toISODate(d) = iso

SundayOnOrBefore(t) == CHOOSE d \in (t - 6) .. t : getDay(d) = 0
MondayOnOrBefore(t) == CHOOSE d \in (t - 6) .. t : getDay(d) = 1
FirstOfMonth(t) ==
    CHOOSE d \in (t - 30) .. t : toISODate(d)[3] = 1 /\ toISODate(d)[2] = toISODate(t)[2]

\* logs of a goal on or after a day whose value is 1
OccurrencesSince(id, day) ==
    Cardinality({l \in LogsOf(goal_logs, id) : DayNumber(l.log_date) >= day /\ l.value = 1})

\* the row the last request wrote
LastRow == CHOOSE l \in goal_logs : l.id = last.logId

Logged == last.op = "LogProgress" /\ last.status = 201
Edited == last.op = "EditLog" /\ last.status = 200

\* the chronologically latest log of a goal (log date, then id)
MostRecent(id) ==
    CHOOSE l \in LogsOf(goal_logs, id) : \A m \in LogsOf(goal_logs, id) :
        \/ DayNumber(l.log_date) > DayNumber(m.log_date)
        \/ DayNumber(l.log_date) = DayNumber(m.log_date) /\ l.id >= m.id

----------------------------------------------------------------------------
(* C1 *)

\* C1: a LogProgress for a (goal, date) that already has a log leaves exactly
\* one row for that date; its value is the logged value, and its note is the
\* new note when that is non-empty and the note stored before otherwise.
C1_MergeUpsert ==
    [][(last'.op = "LogProgress" /\ last'.status = 201 /\ last'.conflict) =>
        LET rows == {l \in goal_logs' : l.goal_id = last'.id /\ l.log_date = last'.logDate.d}
            old == CHOOSE l \in goal_logs : l.goal_id = last'.id /\ l.log_date = last'.logDate.d
        IN  /\ Cardinality(rows) = 1
            /\ \A l \in rows :
                  /\ l.value = last'.value.v
                  /\ l.note = IF last'.note.k = "val" /\ last'.note.s # ""
                              THEN Str(last'.note.s) ELSE old.note]_vars

C1_Witness ==
    /\ Logged /\ last.conflict
    /\ last.note \in {NoNote, Str("")}
    /\ LastRow.note = Str("a")

----------------------------------------------------------------------------
(* C2 *)

\* C2: the log table never holds two rows with the same goal and log date.
C2_OneLogPerDate ==
    \A l, m \in goal_logs : (l.goal_id = m.goal_id /\ l.log_date = m.log_date) => l = m

\* an EditLog asked to move a log onto the date of another log of the goal
C2_Witness ==
    /\ last.op = "EditLog" /\ last.status = 500
    /\ last.value.k # "null" /\ last.logDate.k = "val"
    /\ \E l, m \in goal_logs : /\ l.id = last.logId /\ m.id # l.id
                               /\ m.goal_id = l.goal_id /\ m.log_date = last.logDate.d

----------------------------------------------------------------------------
(* C3 *)

C3_After(weekStart) ==
    (Logged /\ goals[last.id].goal_type = "frequency") =>
        goals[last.id].current_value =
            OccurrencesSince(last.id,
                CASE goals[last.id].frequency_period = "weekly" -> weekStart
                  [] goals[last.id].frequency_period = "monthly" -> FirstOfMonth(now)
                  [] OTHER -> DayNumber(last.logDate.d))

----------------------------------------------------------------------------
(* C4 *)

\* C4: with the clock fixed, a Weekly or Monthly Frequency goal's currentValue
\* equals the number of its value-1 logs in the current period after any
\* sequence of LogProgress and EditLog calls handled one after the other.
C4_CachedCountInPeriod ==
    \A id \in DOMAIN goals :
        (goals[id].goal_type = "frequency" /\ goals[id].frequency_period \in {"weekly", "monthly"}) =>
            goals[id].current_value =
                OccurrencesSince(id, IF goals[id].frequency_period = "weekly"
                                     THEN SundayOnOrBefore(now) ELSE FirstOfMonth(now))

----------------------------------------------------------------------------
(* C5 *)

\* C5: LogProgress on a Reading goal leaves currentPage equal to the logged
\* value and on a Numeric goal leaves currentValue equal to it, whatever the
\* log date.
C5_CachedIsLoggedValue ==
    Logged =>
        /\ goals[last.id].goal_type = "reading" => goals[last.id].current_page = last.value.v
        /\ goals[last.id].goal_type = "numeric" => goals[last.id].current_value = last.value.v

\* a back-dated log whose value differs from that of the goal's latest log
C5_Witness ==
    /\ Logged /\ goals[last.id].goal_type = "reading"
    /\ MostRecent(last.id).id # last.logId
    /\ MostRecent(last.id).value # last.value.v
    /\ goals[last.id].current_page = last.value.v

----------------------------------------------------------------------------
(* C6 *)

\* C6: after a successful EditLog on a Reading or Numeric goal the cached
\* value is the value of the goal's most recent log by (logDate, id), whichever
\* of value, note and logDate the request supplied.
C6_CachedIsMostRecent ==
    Edited =>
        /\ goals[last.id].goal_type = "reading" =>
              goals[last.id].current_page = MostRecent(last.id).value
        /\ goals[last.id].goal_type = "numeric" =>
              goals[last.id].current_value = MostRecent(last.id).value

----------------------------------------------------------------------------
(* C7 *)

\* C7: on a Frequency goal an EditLog that supplies a value stores the
\* currentValue LogProgress's re-scan gives for the same log table and the
\* same log date.
C7_EditScansAsLog ==
    (Edited /\ last.value.k = "val" /\ goals[last.id].goal_type = "frequency") =>
        goals[last.id].current_value =
            countFrequencyLogs(goal_logs, last.id,
                               logPeriodStart(goals[last.id], LastRow.log_date, now))

----------------------------------------------------------------------------
(* POST /:id/logs, one store statement at a time: every await of the handler
   is a point where another request's statement can run *)

Others == <<goal_relations, now, last, stats, otherTables, wallClock>>

Goto(p, label) == pc' = [pc EXCEPT ![p] = label]

\* the request arrives; req.params and req.body are read
Receive(p, id, value, note, logDate) ==
    /\ pc[p] = "idle"
    /\ local' = [local EXCEPT ![p] = [NoLocal EXCEPT !.id = id, !.value = value,
                                                    !.note = note, !.logDate = logDate]]
    /\ Goto(p, "getGoalForLogging")
    /\ UNCHANGED <<goals, goal_logs, Others>>

\* SELECT * FROM goals WHERE id = ?, the value check and the date default
GetGoalForLogging(p) ==
    LET l == local[p] IN
    /\ pc[p] = "getGoalForLogging"
    /\ IF l.id \notin DOMAIN goals
       THEN /\ local' = [local EXCEPT ![p].status = 404]
            /\ Goto(p, "done")
       ELSE IF l.value.k # "val"
       THEN /\ local' = [local EXCEPT ![p].status = 400,
                                      ![p].goal_type = goals[l.id].goal_type,
                                      ![p].frequency_period = goals[l.id].frequency_period]
            /\ Goto(p, "done")
       ELSE /\ local' = [local EXCEPT ![p].goal_type = goals[l.id].goal_type,
                                      ![p].frequency_period = goals[l.id].frequency_period,
                                      ![p].date = IF l.logDate.k = "val" THEN l.logDate.d
                                                  ELSE getToday(now)]
            /\ Goto(p, "upsertGoalLog")
    /\ UNCHANGED <<goals, goal_logs, Others>>

UpsertGoalLog(p) ==
    LET l == local[p] IN
    /\ pc[p] = "upsertGoalLog"
    /\ ConflictRows(goal_logs, l.id, l.date) # {} \/ Cardinality(goal_logs) < MaxLogs
    /\ goal_logs' = upsertGoalLog(goal_logs, l.id, l.date, l.value.v, NoteOrNull(l.note))
    /\ Goto(p, IF l.goal_type = "reading" THEN "updateReadingProgress"
               ELSE IF l.goal_type = "frequency" THEN "countFrequencyLogs"
               ELSE "updateNumericProgress")
    /\ UNCHANGED <<goals, local, Others>>

UpdateReadingProgress(p) ==
    /\ pc[p] = "updateReadingProgress"
    /\ goals' = [goals EXCEPT ![local[p].id].current_page = local[p].value.v]
    /\ Goto(p, "getCreatedLog")
    /\ UNCHANGED <<goal_logs, local, Others>>

CountFrequencyLogs(p) ==
    LET l == local[p] IN
    /\ pc[p] = "countFrequencyLogs"
    /\ local' = [local EXCEPT ![p].count =
                     countFrequencyLogs(goal_logs, l.id, logPeriodStart(l, l.date, now))]
    /\ Goto(p, "updateFrequencyProgress")
    /\ UNCHANGED <<goals, goal_logs, Others>>

frequencyArgLoggedValue(l) == l.value.v

\* args: [count, id] of updateFrequencyProgress
frequencyArg(l) == l.count

UpdateFrequencyProgress(p) ==
    /\ pc[p] = "updateFrequencyProgress"
    /\ goals' = [goals EXCEPT ![local[p].id].current_value = frequencyArg(local[p])]
    /\ Goto(p, "getCreatedLog")
    /\ UNCHANGED <<goal_logs, local, Others>>

UpdateNumericProgress(p) ==
    /\ pc[p] = "updateNumericProgress"
    /\ goals' = [goals EXCEPT ![local[p].id].current_value = local[p].value.v]
    /\ Goto(p, "getCreatedLog")
    /\ UNCHANGED <<goal_logs, local, Others>>

\* SELECT * FROM goal_logs WHERE goal_id = ? AND log_date = ?
GetCreatedLog(p) ==
    /\ pc[p] = "getCreatedLog"
    /\ Goto(p, "getGoalAfterLog")
    /\ UNCHANGED <<goals, goal_logs, local, Others>>

\* SELECT * FROM goals WHERE id = ? and res.status(201)
GetGoalAfterLog(p) ==
    /\ pc[p] = "getGoalAfterLog"
    /\ local' = [local EXCEPT ![p].status = 201]
    /\ Goto(p, "done")
    /\ UNCHANGED <<goals, goal_logs, Others>>

\* the bodies two overlapping requests carry
RaceNoteInputs == NoteInputs

NextRace ==
    \E p \in Procs :
        \/ \E id \in GoalIdInputs :
           \E value \in BodyAfter(id \in DOMAIN goals, ValueInputs, Undefined) :
           \E note \in RaceNoteInputs, logDate \in BodyAfter(value.k = "val", DateInputs, NoDate) :
                Receive(p, id, value, note, logDate)
        \/ GetGoalForLogging(p)
        \/ UpsertGoalLog(p)
        \/ UpdateReadingProgress(p)
        \/ CountFrequencyLogs(p)
        \/ UpdateFrequencyProgress(p)
        \/ UpdateNumericProgress(p)
        \/ GetCreatedLog(p)
        \/ GetGoalAfterLog(p)

SpecRace == Init /\ [][NextRace]_vars

----------------------------------------------------------------------------
(* C8 *)

BothLogged ==
    /\ \A p \in Procs : pc[p] = "done" /\ local[p].status = 201
    /\ \A p \in Procs : local[p].goal_type = "frequency"
                         /\ local[p].frequency_period \in {"weekly", "monthly"}

\* the value-1 logs of the goal in the current period
InPeriod(id) ==
    OccurrencesSince(id, IF goals[id].frequency_period = "weekly"
                         THEN SundayOnOrBefore(now) ELSE FirstOfMonth(now))

\* C8: when two overlapping LogProgress calls on a Weekly or Monthly goal end
\* with a currentValue that is not the number of in-period value-1 logs, the
\* stored number is the count one call took before the other call's write,
\* stored after the other call counted the final table.
C8_StaleCountStored ==
    (BothLogged /\ goals[1].current_value # InPeriod(1)) =>
        \E p, q \in Procs :
            /\ p # q
            /\ goals[1].current_value = local[p].count
            /\ local[q].count = InPeriod(1)

\* two calls for different dates leave a currentValue that miscounts
C8_Witness ==
    /\ BothLogged
    /\ local[1].date # local[2].date
    /\ goals[1].current_value # InPeriod(1)

----------------------------------------------------------------------------
(* Statistics of stored goals *)

BelowZero == 1             \* how far below 0 a stored cached value or target goes
MaxStat == 3               \* largest cached value of a stored goal

\* log tables of goal 1: any set of dates, any values, ids in date order
LogTable(S, f) ==
    {[id |-> 1 + Cardinality({e \in S : DayNumber(e) < DayNumber(d)}), goal_id |-> 1,
      log_date |-> d, value |-> f[d], note |-> SqlNull] : d \in S}

\* the goal rows CreateGoal, UpdateGoal and LogProgress can leave
StoredGoalRows ==
    {[NewGoalRow(ty, tv, tv, "weekly") EXCEPT !.current_page = cv] :
        ty \in {"reading"}, tv \in (0 - BelowZero) .. MaxTarget, cv \in (0 - BelowZero) .. MaxStat}
    \cup {NewGoalRow(ty, tv, 0, fp) :
        ty \in {"frequency"}, tv \in (0 - BelowZero) .. MaxTarget, fp \in Periods}
    \cup {[NewGoalRow(ty, tv, 0, "null") EXCEPT !.current_value = cv] :
        ty \in {"numeric"}, tv \in (0 - BelowZero) .. MaxTarget, cv \in (0 - BelowZero) .. MaxStat}

InitStats ==
    /\ \E row \in StoredGoalRows :
          \/ goals = (1 :> row) /\ goal_relations = {}
          \/ /\ row.goal_type = "numeric"
             /\ \E sub \in {r \in StoredGoalRows : r.goal_type = "numeric"} :
                   goals = (1 :> row) @@ (2 :> sub)
             /\ goal_relations = {<<1, 2>>}
    /\ \E S \in SUBSET Dates : \E f \in [S -> Values] : goal_logs = LogTable(S, f)
    /\ now \in ClockDays
    /\ last = NoRequest
    /\ pc = [p \in Procs |-> "idle"]
    /\ local = [p \in Procs |-> NoLocal]
    /\ stats = NoStats
    /\ EmptyOtherTables
    /\ UTC

NextStats == \E id \in GoalIdInputs : GetStats(id)

SpecStats == InitStats /\ [][NextStats]_vars

----------------------------------------------------------------------------
(* C9 *)

\* C9: every statistics response carries a progressPercent between 0 and 100.
C9_PercentWithinBounds ==
    stats.status = 200 => stats.body.progressPercent \in 0 .. 100

----------------------------------------------------------------------------
(* C10 *)

\* the day offsets 0 .. StreakDays - 1 the scan visits before it ends: every
\* earlier offset past today has a log
Visited(id, i) ==
    /\ i < StreakDays
    /\ \A j \in 1 .. (i - 1) : \E l \in LogsOf(goal_logs, id) : DayNumber(l.log_date) = now - j

\* C10: the streak is the number of visited day offsets that have a log,
\* where the scan runs back from today, ends at the first day past today
\* without a log, and passes over a today without a log.
C10_Streak ==
    stats.status = 200 =>
        stats.body.streak =
            Cardinality({i \in 0 .. (NumDays + 1) :
                            /\ Visited(stats.id, i)
                            /\ \E l \in LogsOf(goal_logs, stats.id) : DayNumber(l.log_date) = now - i})

\* logs for yesterday and the day before, none for today: streak 2
C10_Witness ==
    /\ stats.status = 200
    /\ {DayNumber(l.log_date) : l \in LogsOf(goal_logs, stats.id)} = {now - 1, now - 2}
    /\ stats.body.streak = 2

----------------------------------------------------------------------------
(* C11 *)

\* the supplied logs hold none for today, none for yesterday and one for the
\* day before yesterday
GapOfTwoDays ==
    /\ stats.status = 200
    /\ LET days == {DayNumber(l.log_date) : l \in LogsOf(goal_logs, stats.id)}
       IN  now \notin days /\ (now - 1) \notin days /\ (now - 2) \in days

\* C11 as stated: with no log for today and none for yesterday but one for
\* the day before yesterday, the streak is 1.
C11_StreakOne == GapOfTwoDays => stats.body.streak = 1

\* C11: with no log for today and none for yesterday but one for the day
\* before yesterday, the scan ends at yesterday and the streak is 0.
C11_StreakZero == GapOfTwoDays => stats.body.streak = 0

\* statistics computed from a single log dated the day before yesterday
C11_Witness ==
    /\ GapOfTwoDays
    /\ Cardinality(LogsOf(goal_logs, stats.id)) = 1
    /\ stats.body.streak = 0

----------------------------------------------------------------------------
(* C12 *)

\* the logs the statistics of the goal asked for were computed from
SuppliedLogs == recentLogs(goal_logs, stats.id)

\* the log of the supplied logs with the earliest date, and with the latest
EarliestLog == CHOOSE l \in SuppliedLogs : \A m \in SuppliedLogs : StrGE(m.log_date, l.log_date)
LatestLog == CHOOSE l \in SuppliedLogs : \A m \in SuppliedLogs : StrGE(l.log_date, m.log_date)

\* ten times the pages per day between the earliest and the latest log,
\* rounded to an integer
PagesPerDayTenths ==
    RoundRatio(10 * (LatestLog.value - EarliestLog.value),
               Max(1, DayNumber(LatestLog.log_date) - DayNumber(EarliestLog.log_date)))

ReadingStats == stats.status = 200 /\ goals[stats.id].goal_type = "reading"

AllThreeNull ==
    /\ stats.body.velocity.k = "null"
    /\ stats.body.estimatedFinishDate.k = "null"
    /\ stats.body.daysRemaining.k = "null"

AllThreeSet ==
    /\ stats.body.velocity.k = "val"
    /\ stats.body.estimatedFinishDate.k = "val"
    /\ stats.body.daysRemaining.k = "val"

\* C12 as stated: a Reading goal's velocity, estimatedFinishDate and
\* daysRemaining are all set with at least 2 logs and a velocity above 0,
\* and all null in every other case.
C12_AllOrNothing ==
    ReadingStats =>
        IF Cardinality(SuppliedLogs) >= 2 /\ PagesPerDayTenths > 0
        THEN AllThreeSet ELSE AllThreeNull

\* C12: for a Reading goal with a non-zero totalPages the three are all set
\* with at least 2 logs and a velocity above 0; with at least 2 logs and a
\* velocity of 0 or less the velocity is reported and the other two are
\* null; with fewer than 2 logs, or without a totalPages, all three are null.
C12_VelocityWithoutProjection ==
    ReadingStats =>
        IF goals[stats.id].total_pages = 0 \/ Cardinality(SuppliedLogs) < 2
        THEN AllThreeNull
        ELSE IF PagesPerDayTenths > 0
        THEN AllThreeSet
        ELSE /\ stats.body.velocity = Num(PagesPerDayTenths)
             /\ stats.body.estimatedFinishDate.k = "null"
             /\ stats.body.daysRemaining.k = "null"

\* a Reading goal with two logs whose values fall: a negative velocity and
\* no projection
C12_Witness ==
    /\ ReadingStats
    /\ goals[stats.id].total_pages # 0
    /\ Cardinality(SuppliedLogs) >= 2
    /\ PagesPerDayTenths < 0
    /\ stats.body.velocity = Num(PagesPerDayTenths)
    /\ stats.body.daysRemaining.k = "null"

----------------------------------------------------------------------------
(* C13 *)

ReadingDays == 6           \* days the log dates of the reading goal range over
ReadingLogs == 3           \* logs the reading goal may have

ReadingDates == {toISODate(d) : d \in FirstDay .. (FirstDay + ReadingDays - 1)}

\* pages a reading log may hold, and the totalPages and currentPage of the goal
PageInputs == {0, 2, 50}
TotalPagesInputs == {23, 300}
CurrentPageInputs == {2, 50}

\* a stored reading goal with up to ReadingLogs logs over ReadingDates, read on the
\* last of those days
InitReading ==
    /\ \E tp \in TotalPagesInputs, cp \in CurrentPageInputs :
          goals = (1 :> [NewGoalRow("reading", tp, tp, "weekly") EXCEPT !.current_page = cp])
    /\ goal_relations = {}
    /\ \E S \in {R \in SUBSET ReadingDates : Cardinality(R) <= ReadingLogs} :
          \E f \in [S -> PageInputs] : goal_logs = LogTable(S, f)
    /\ now = FirstDay + ReadingDays - 1
    /\ last = NoRequest
    /\ pc = [p \in Procs |-> "idle"]
    /\ local = [p \in Procs |-> NoLocal]
    /\ stats = NoStats
    /\ EmptyOtherTables
    /\ UTC

SpecReading == InitReading /\ [][NextStats]_vars

\* C13: for a Reading goal with at least 2 logs, velocity is the difference
\* of the latest and the earliest logged value over max(1, days between
\* them), rounded to one decimal; when it is above 0, daysRemaining is
\* ceil((totalPages - currentPage) / velocity) and estimatedFinishDate is
\* today plus daysRemaining days.
C13_Projection ==
    (ReadingStats /\ Cardinality(SuppliedLogs) >= 2) =>
        /\ stats.body.velocity = Num(PagesPerDayTenths)
        /\ PagesPerDayTenths > 0 =>
              /\ stats.body.daysRemaining =
                    Num(CeilRatio(10 * (goals[stats.id].total_pages - goals[stats.id].current_page),
                                  PagesPerDayTenths))
              /\ stats.body.estimatedFinishDate =
                    [k |-> "val", d |-> toISODate(now + stats.body.daysRemaining.v)]

----------------------------------------------------------------------------
(* C14 *)

FrequencyDays == 5         \* days the log dates of the frequency goal range over
FrequencyTarget == 4       \* largest target_value of the frequency goal

FrequencyDates == {toISODate(d) : d \in FirstDay .. (FirstDay + FrequencyDays - 1)}

\* a stored frequency goal of any period with any log table over
\* FrequencyDates, read on the last of those days
InitFrequency ==
    /\ \E tv \in (0 - BelowZero) .. FrequencyTarget, fp \in Periods :
          goals = (1 :> NewGoalRow("frequency", tv, 0, fp))
    /\ goal_relations = {}
    /\ \E S \in SUBSET FrequencyDates : \E f \in [S -> Values] : goal_logs = LogTable(S, f)
    /\ now = FirstDay + FrequencyDays - 1
    /\ last = NoRequest
    /\ pc = [p \in Procs |-> "idle"]
    /\ local = [p \in Procs |-> NoLocal]
    /\ stats = NoStats
    /\ EmptyOtherTables
    /\ UTC

SpecFrequency == InitFrequency /\ [][NextStats]_vars

FrequencyStats == stats.status = 200 /\ goals[stats.id].goal_type = "frequency"

\* the day the period of the goal asked for starts on, read from today
PeriodStartDay(weekStart) ==
    CASE goals[stats.id].frequency_period = "weekly" -> weekStart
      [] goals[stats.id].frequency_period = "monthly" -> FirstOfMonth(now)
      [] OTHER -> now

\* supplied logs on or after a day whose value is 1
SuppliedOccurrencesSince(day) ==
    Cardinality({l \in SuppliedLogs : DayNumber(l.log_date) >= day /\ l.value = 1})

----------------------------------------------------------------------------
(* C15 *)

MaxSubGoals == 3           \* sub-goals the parent goal may have
SubTarget == 1             \* largest target_value and current_value of a sub-goal

\* stored sub-goal rows: active reading and numeric goals, a reading one with
\* all its pages read, and one completed goal that was soft-deleted
SubGoalRows ==
    {[NewGoalRow(ty, tv, SubTarget, "weekly") EXCEPT !.current_value = cv,
                                                     !.current_page = IF ty = "reading" THEN SubTarget ELSE 0] :
        ty \in {"reading", "numeric"}, tv \in 0 .. SubTarget, cv \in 0 .. SubTarget}
    \cup {[NewGoalRow("numeric", SubTarget, 0, "null") EXCEPT !.current_value = SubTarget,
                                                               !.is_active = 0]}

\* a stored goal without sub-goals, or a goal of any type with 1 to
\* MaxSubGoals sub-goals; no logs
InitRollup ==
    /\ \/ \E row \in StoredGoalRows : goals = (1 :> row) /\ goal_relations = {}
       \/ \E ty \in GoalTypes, n \in 1 .. MaxSubGoals :
          \E subs \in [2 .. (n + 1) -> SubGoalRows] :
             /\ goals = (1 :> NewGoalRow(ty, MaxTarget, MaxTarget, "weekly")) @@ subs
             /\ goal_relations = {<<1, c>> : c \in 2 .. (n + 1)}
    /\ goal_logs = {}
    /\ now \in ClockDays
    /\ last = NoRequest
    /\ pc = [p \in Procs |-> "idle"]
    /\ local = [p \in Procs |-> NoLocal]
    /\ stats = NoStats
    /\ EmptyOtherTables
    /\ UTC

SpecRollup == InitRollup /\ [][NextStats]_vars

\* the sub-goals the statistics of the goal asked for were computed from:
\* its active children
SuppliedSubGoals == {c \in DOMAIN goals : <<stats.id, c>> \in goal_relations /\ goals[c].is_active = 1}

CompletedSubGoals ==
    {c \in SuppliedSubGoals : goals[c].target_value > 0 /\ goals[c].current_value >= goals[c].target_value}

\* the roll-up of C15, given the percentage of a Numeric goal without sub-goals
RollupWith(ownPercent) ==
    stats.status = 200 =>
        /\ stats.body.subGoalsCompleted = Cardinality(CompletedSubGoals)
        /\ goals[stats.id].goal_type = "numeric" =>
              stats.body.progressPercent =
                  IF SuppliedSubGoals # {}
                  THEN RoundRatio(100 * Cardinality(CompletedSubGoals), Cardinality(SuppliedSubGoals))
                  ELSE ownPercent

----------------------------------------------------------------------------
(* Goal lifecycle: POST /, PATCH /:id, DELETE /:id and the lookups *)

MaxGoals == 2              \* goals the store may hold

NoBool == [k |-> "undefined", b |-> FALSE]
Bool(x) == [k |-> "val", b |-> x]
NullDate == [k |-> "null", d |-> <<>>]

\* a || b on an optional string, an optional number and an optional date
StrOr(a, b) == IF a.k = "val" /\ a.s # "" THEN a.s ELSE b
NumOr(a, b) == IF a.k = "val" /\ a.v # 0 THEN a.v ELSE b
DateOrNull(a) == IF a.k = "val" THEN DateStr(a.d) ELSE NullDate

\* A row of goals with the columns NewGoalRow leaves out: title, unit,
\* target_date and created_at, the second CURRENT_TIMESTAMP read
GoalRow(title, goalType, targetValue, unit, totalPages, frequencyPeriod, targetDate, createdAt) ==
    NewGoalRow(goalType, targetValue, totalPages, frequencyPeriod)
        @@ [title |-> title, unit |-> unit, target_date |-> targetDate, created_at |-> createdAt]

NextGoalIdFirst(gs) == 1

\* uuidv4(): an id no goal has; ids are numbered in the order of creation
NextGoalId(gs) == Cardinality(DOMAIN gs) + 1

\* the latest created_at of the store: the clock has reached that second
lastCreated(gs) == IF DOMAIN gs = {} THEN 0 ELSE CHOOSE t \in {gs[g].created_at : g \in DOMAIN gs} :
                                                    \A g \in DOMAIN gs : gs[g].created_at <= t

createdRelationsReversed(rels, parentId, id) ==
    IF parentId.k = "val" THEN rels \cup {<<id, parentId.v>>} ELSE rels

\* INSERT INTO goal_relations (parent_goal_id, child_goal_id, ...) when the
\* body has a parentId (goals.ts:241-247)
createdRelations(rels, parentId, id) ==
    IF parentId.k = "val" THEN rels \cup {<<parentId.v, id>>} ELSE rels

\* POST /, served in the second at
CreateGoal(body, at) ==
    LET goalType == IF body.goalType.k = "val" THEN body.goalType.s ELSE "frequency"
        id == NextGoalId(goals)
        row == GoalRow(body.title.s, goalType, NumOr(body.targetValue, 0), StrOr(body.unit, ""),
                       body.totalPages.v, StrOr(body.frequencyPeriod, "weekly"),
                       DateOrNull(body.targetDate), at)
    IN  /\ Idle
        /\ IF body.title.k # "val" \/ body.title.s = ""
           THEN /\ last' = [op |-> "CreateGoal", status |-> 400, title |-> body.title]
                /\ UNCHANGED <<goals, goal_relations>>
           ELSE IF body.parentId.k = "val" /\ body.parentId.v \notin DOMAIN goals
           THEN /\ last' = [op |-> "CreateGoal", status |-> 404, parentId |-> body.parentId]
                /\ UNCHANGED <<goals, goal_relations>>
           ELSE /\ Cardinality(DOMAIN goals) < MaxGoals
                /\ goals' = goals @@ (id :> row)
                /\ goal_relations' = createdRelations(goal_relations, body.parentId, id)
                /\ last' = [op |-> "CreateGoal", status |-> 201, id |-> id,
                            parentId |-> body.parentId]
        /\ UNCHANGED <<goal_logs, now, pc, local, stats, otherTables, wallClock>>

updatedColumnAlways(field, old, new) == new

\* if (field !== undefined) { updates.push('column = ?'); values.push(field) }
updatedColumn(field, old, new) == IF field.k = "undefined" THEN old ELSE new

UpdatedGoalRowWithType(row, body) ==
    [row EXCEPT !.title = updatedColumn(body.title, @, body.title.s),
                !.target_value = updatedColumn(body.targetValue, @, body.targetValue.v),
                !.unit = updatedColumn(body.unit, @, body.unit.s),
                !.total_pages = updatedColumn(body.totalPages, @, body.totalPages.v),
                !.current_page = updatedColumn(body.currentPage, @, body.currentPage.v),
                !.current_value = updatedColumn(body.currentValue, @, body.currentValue.v),
                !.target_date = updatedColumn(body.targetDate, @, DateStr(body.targetDate.d)),
                !.is_active = updatedColumn(body.isActive, @, IF body.isActive.b THEN 1 ELSE 0),
                !.goal_type = updatedColumn(body.goalType, @, body.goalType.s)]

\* the row UPDATE goals SET ... WHERE id = ? leaves (goals.ts:275-314): the
\* body's goalType is not among the fields read at goals.ts:264
UpdatedGoalRow(row, body) ==
    [row EXCEPT !.title = updatedColumn(body.title, @, body.title.s),
                !.target_value = updatedColumn(body.targetValue, @, body.targetValue.v),
                !.unit = updatedColumn(body.unit, @, body.unit.s),
                !.total_pages = updatedColumn(body.totalPages, @, body.totalPages.v),
                !.current_page = updatedColumn(body.currentPage, @, body.currentPage.v),
                !.current_value = updatedColumn(body.currentValue, @, body.currentValue.v),
                !.target_date = updatedColumn(body.targetDate, @, DateStr(body.targetDate.d)),
                !.is_active = updatedColumn(body.isActive, @, IF body.isActive.b THEN 1 ELSE 0)]

\* PATCH /:id
UpdateGoal(id, body) ==
    /\ Idle
    /\ IF id \notin DOMAIN goals
       THEN /\ last' = [op |-> "UpdateGoal", status |-> 404, id |-> id]
            /\ UNCHANGED goals
       ELSE /\ goals' = [goals EXCEPT ![id] = UpdatedGoalRow(@, body)]
            /\ last' = [op |-> "UpdateGoal", status |-> 200, id |-> id, body |-> body]
    /\ UNCHANGED <<goal_relations, goal_logs, now, pc, local, stats, otherTables, wallClock>>

softDeletedWithChildren(gs, rels, id) ==
    [g \in DOMAIN gs |-> IF g = id \/ <<id, g>> \in rels THEN [gs[g] EXCEPT !.is_active = 0]
                         ELSE gs[g]]

\* UPDATE goals SET is_active = 0 WHERE id = ?
softDeleted(gs, rels, id) == [gs EXCEPT ![id].is_active = 0]

SoftDeleteCascade(id) ==
    /\ Idle
    /\ IF id \notin DOMAIN goals
       THEN /\ last' = [op |-> "SoftDelete", status |-> 404, id |-> id]
            /\ UNCHANGED <<goals, goal_relations>>
       ELSE /\ goals' = softDeleted(goals, goal_relations, id)
            /\ goal_relations' = {e \in goal_relations : e[1] # id /\ e[2] # id}
            /\ last' = [op |-> "SoftDelete", status |-> 204, id |-> id]
    /\ UNCHANGED <<goal_logs, now, pc, local, stats, otherTables, wallClock>>

\* DELETE /:id
SoftDelete(id) ==
    /\ Idle
    /\ IF id \notin DOMAIN goals
       THEN /\ last' = [op |-> "SoftDelete", status |-> 404, id |-> id]
            /\ UNCHANGED goals
       ELSE /\ goals' = softDeleted(goals, goal_relations, id)
            /\ last' = [op |-> "SoftDelete", status |-> 204, id |-> id]
    /\ UNCHANGED <<goal_relations, goal_logs, now, pc, local, stats, otherTables, wallClock>>

\* GET /:id
GetGoal(id) ==
    /\ Idle
    /\ last' = IF id \notin DOMAIN goals THEN [op |-> "GetGoal", status |-> 404, id |-> id]
               ELSE [op |-> "GetGoal", status |-> 200, id |-> id, row |-> goals[id]]
    /\ UNCHANGED <<goals, goal_relations, goal_logs, now, pc, local, stats, otherTables, wallClock>>

\* The orders ORDER BY created_at can return the goals of S in: created_at
\* holds seconds, and SQL leaves the order of rows with equal keys open
orderedByCreatedAt(gs, S, descending) ==
    {rows \in [1 .. Cardinality(S) -> S] :
        /\ \A i, j \in 1 .. Cardinality(S) : i # j => rows[i] # rows[j]
        /\ \A i, j \in 1 .. Cardinality(S) :
              i < j => IF descending THEN gs[rows[i]].created_at >= gs[rows[j]].created_at
                       ELSE gs[rows[i]].created_at <= gs[rows[j]].created_at}

\* WHERE g.is_active = 1 AND NOT EXISTS (SELECT 1 FROM goal_relations gr
\* WHERE gr.child_goal_id = g.id)
activeTopLevel(gs, rels) ==
    {g \in DOMAIN gs : gs[g].is_active = 1 /\ ~ \E e \in rels : e[2] = g}

\* GET /
ListActiveTopLevelGoals ==
    /\ Idle
    /\ \E rows \in orderedByCreatedAt(goals, activeTopLevel(goals, goal_relations), TRUE) :
          last' = [op |-> "ListActiveTopLevelGoals", status |-> 200, rows |-> rows]
    /\ UNCHANGED <<goals, goal_relations, goal_logs, now, pc, local, stats, otherTables, wallClock>>

\* GET /:id/subgoals
ListSubGoals(id) ==
    /\ Idle
    /\ \E rows \in orderedByCreatedAt(goals, subGoalsOf(goals, goal_relations, id), FALSE) :
          last' = [op |-> "ListSubGoals", status |-> 200, id |-> id, rows |-> rows]
    /\ UNCHANGED <<goals, goal_relations, goal_logs, now, pc, local, stats, otherTables, wallClock>>

\* an empty store
InitLifecycle ==
    /\ goals = <<>>
    /\ goal_relations = {}
    /\ goal_logs = {}
    /\ now = FirstDay + NumDays - 1
    /\ last = NoRequest
    /\ pc = [p \in Procs |-> "idle"]
    /\ local = [p \in Procs |-> NoLocal]
    /\ stats = NoStats
    /\ EmptyOtherTables
    /\ UTC

\* a PATCH body without fields
NoUpdate ==
    [title |-> NoNote, targetValue |-> Undefined, unit |-> NoNote, totalPages |-> Undefined,
     currentPage |-> Undefined, currentValue |-> Undefined, targetDate |-> NoDate,
     isActive |-> NoBool, goalType |-> NoNote]

CreateInputs ==
    [title : {NoNote, Str("a")}, goalType : {NoNote, Str("reading")},
     targetValue : {Undefined}, unit : {NoNote}, totalPages : {Num(1)},
     frequencyPeriod : {NoNote}, targetDate : {NoDate},
     parentId : {Undefined} \cup {Num(g) : g \in GoalIdInputs}]

LifecycleUpdateInputs ==
    {[NoUpdate EXCEPT !.goalType = Str("numeric")],
     [NoUpdate EXCEPT !.isActive = Bool(TRUE), !.goalType = Str("reading")],
     [NoUpdate EXCEPT !.isActive = Bool(FALSE)]}

\* progress is logged on the goal created first
LoggedGoalInputs == {1, NoSuchGoal}

NextLifecycle ==
    \/ \E body \in CreateInputs : \E at \in {lastCreated(goals), lastCreated(goals) + 1} :
          at > 0 /\ CreateGoal(body, at)
    \/ \E id \in GoalIdInputs : \E body \in LifecycleUpdateInputs : UpdateGoal(id, body)
    \/ \E id \in GoalIdInputs : SoftDelete(id)
    \/ \E id \in GoalIdInputs : GetGoal(id)
    \/ ListActiveTopLevelGoals
    \/ \E id \in GoalIdInputs : ListSubGoals(id)
    \/ \E id \in LoggedGoalInputs : LogProgress(id, Num(MaxValue), NoNote, NoDate)
    \/ \E goalId \in GoalIdInputs : \E logId \in LogIdInputs :
          EditLog(goalId, logId, Num(MinValue), NoNote, NoDate)

SpecLifecycle == InitLifecycle /\ [][NextLifecycle]_vars

----------------------------------------------------------------------------
(* C16 *)

\* C16: no step of CreateGoal, UpdateGoal, LogProgress, EditLog or SoftDelete
\* changes the type of a goal that exists, so every goal keeps the type it
\* was created with, also when the body of UpdateGoal carries a type.
C16_TypeNeverChanges ==
    [][\A g \in DOMAIN goals :
          g \in DOMAIN goals' /\ goals'[g].goal_type = goals[g].goal_type]_vars

\* an UpdateGoal that succeeded with a type in its body other than the
\* goal's
C16_Witness ==
    /\ last.op = "UpdateGoal" /\ last.status = 200
    /\ last.body.goalType.k = "val"
    /\ last.body.goalType.s # goals[last.id].goal_type
    /\ goal_logs # {}

----------------------------------------------------------------------------
(* C17 *)

\* A stored goal of any type with a log and a sub-goal
InitUpdate ==
    /\ \E ty \in GoalTypes :
          goals = (1 :> GoalRow("a", ty, 0, "", 0, "weekly", NullDate, 1))
                  @@ (2 :> GoalRow("a", "numeric", 0, "", 0, "null", NullDate, 2))
    /\ goal_relations = {<<1, 2>>}
    /\ goal_logs = LogTable({getToday(FirstDay)}, [d \in {getToday(FirstDay)} |-> MinValue])
    /\ now = FirstDay + NumDays - 1
    /\ last = NoRequest
    /\ pc = [p \in Procs |-> "idle"]
    /\ local = [p \in Procs |-> NoLocal]
    /\ stats = NoStats
    /\ EmptyOtherTables
    /\ UTC

\* PATCH bodies with any of the eight fields
UpdateBodies ==
    [title : {NoNote, Str("b")}, targetValue : {Undefined, Num(1)}, unit : {NoNote, Str("km")},
     totalPages : {Undefined, Num(1)}, currentPage : {Undefined, Num(1)},
     currentValue : {Undefined, Num(1)}, targetDate : {NoDate, DateStr(getToday(FirstDay))},
     isActive : {NoBool, Bool(FALSE), Bool(TRUE)}, goalType : {NoNote}]

MaxFields == 2             \* fields a PATCH body may carry

\* PATCH bodies with up to MaxFields of the eight fields
UpdateInputs ==
    {body \in UpdateBodies : Cardinality({f \in DOMAIN body : body[f].k = "val"}) <= MaxFields}

\* the goal addressed is the parent, or none
UpdatedGoalInputs == {1, NoSuchGoal}

NextUpdate == \E id \in UpdatedGoalInputs : \E body \in UpdateInputs : UpdateGoal(id, body)

SpecUpdate == InitUpdate /\ [][NextUpdate]_vars

\* the value a field of the body leaves in its column
Supplied(field, old, new) == IF field.k = "val" THEN new ELSE old

\* C17: UpdateGoal writes each supplied field of the eight to the addressed
\* goal and leaves its other fields, the other goals, the logs and the edges
\* as they were; with an unknown id it answers NotFound and changes nothing.
C17_UpdateFrame ==
    [][last'.op = "UpdateGoal" =>
         /\ goal_logs' = goal_logs
         /\ goal_relations' = goal_relations
         /\ DOMAIN goals' = DOMAIN goals
         /\ IF last'.id \notin DOMAIN goals
            THEN last'.status = 404 /\ goals' = goals
            ELSE LET b == last'.body
                     old == goals[last'.id]
                     new == goals'[last'.id]
                 IN  /\ last'.status = 200
                     /\ \A g \in DOMAIN goals \ {last'.id} : goals'[g] = goals[g]
                     /\ new.title = Supplied(b.title, old.title, b.title.s)
                     /\ new.target_value = Supplied(b.targetValue, old.target_value, b.targetValue.v)
                     /\ new.unit = Supplied(b.unit, old.unit, b.unit.s)
                     /\ new.total_pages = Supplied(b.totalPages, old.total_pages, b.totalPages.v)
                     /\ new.current_page = Supplied(b.currentPage, old.current_page, b.currentPage.v)
                     /\ new.current_value = Supplied(b.currentValue, old.current_value, b.currentValue.v)
                     /\ new.target_date = Supplied(b.targetDate, old.target_date, DateStr(b.targetDate.d))
                     /\ new.is_active = Supplied(b.isActive, old.is_active, IF b.isActive.b THEN 1 ELSE 0)
                     /\ new.goal_type = old.goal_type
                     /\ new.frequency_period = old.frequency_period
                     /\ new.created_at = old.created_at]_vars

\* an UpdateGoal with a title and a targetValue and without a unit or a
\* currentValue, on a goal whose unit and currentValue an earlier update set
C17_Witness ==
    /\ last.op = "UpdateGoal" /\ last.status = 200
    /\ last.body.title.k = "val" /\ last.body.targetValue.k = "val"
    /\ last.body.unit.k = "undefined" /\ last.body.currentValue.k = "undefined"
    /\ goals[last.id].title = "b" /\ goals[last.id].target_value = 1
    /\ goals[last.id].unit = "km" /\ goals[last.id].current_value = 1
    /\ goals[2].title = "a"
    /\ goal_logs # {} /\ goal_relations # {}

----------------------------------------------------------------------------
(* C18 *)

----------------------------------------------------------------------------
(* C19 *)

\* C19: ListActiveTopLevelGoals returns each goal that is active and the
\* child of no edge once, and no other goal, a goal created later before a
\* goal created earlier.
C19_NewestFirst ==
    last.op = "ListActiveTopLevelGoals" =>
        /\ {last.rows[i] : i \in DOMAIN last.rows} =
              {g \in DOMAIN goals : goals[g].is_active = 1 /\ ~ \E e \in goal_relations : e[2] = g}
        /\ \A i, j \in DOMAIN last.rows : i < j => last.rows[i] > last.rows[j]

----------------------------------------------------------------------------
(* C20 *)

\* C20: SoftDelete of a goal clears its is_active and changes no other field,
\* goal, log or edge, so that a second SoftDelete changes nothing; of an
\* unknown id it answers NotFound and changes nothing.  A lookup by id
\* returns a goal whether or not it is active, and no list of top-level
\* goals or of sub-goals holds a goal that is not active.
C20_SoftDeleteFrame ==
    [][/\ last'.op = "SoftDelete" =>
            /\ goal_logs' = goal_logs
            /\ goal_relations' = goal_relations
            /\ DOMAIN goals' = DOMAIN goals
            /\ IF last'.id \notin DOMAIN goals
               THEN last'.status = 404 /\ goals' = goals
               ELSE /\ last'.status = 204
                    /\ goals'[last'.id].is_active = 0
                    /\ \A f \in DOMAIN goals[last'.id] \ {"is_active"} :
                          goals'[last'.id][f] = goals[last'.id][f]
                    /\ \A g \in DOMAIN goals \ {last'.id} : goals'[g] = goals[g]
                    /\ goals[last'.id].is_active = 0 => goals' = goals
       /\ (last'.op = "GetGoal" /\ last'.id \in DOMAIN goals') =>
            last'.status = 200 /\ last'.row = goals'[last'.id]
       /\ last'.op \in {"ListActiveTopLevelGoals", "ListSubGoals"} =>
            \A i \in DOMAIN last'.rows : goals'[last'.rows[i]].is_active = 1]_vars

\* a goal with a log and a sub-goal, soft-deleted: the log, the edge and the
\* active sub-goal are still there
C20_Witness ==
    /\ last.op = "SoftDelete" /\ last.status = 204
    /\ goals[last.id].is_active = 0
    /\ LogsOf(goal_logs, last.id) # {}
    /\ \E e \in goal_relations : e[1] = last.id /\ goals[e[2]].is_active = 1

----------------------------------------------------------------------------
(* C21 *)

\* C21: every step keeps every edge, and a step that adds one is a CreateGoal
\* with a parent, which adds the one edge from that parent to the new goal;
\* UpdateGoal, SoftDelete, LogProgress and EditLog leave the edges as they are.
C21_EdgesOnlyAdded ==
    [][/\ goal_relations \subseteq goal_relations'
       /\ goal_relations' # goal_relations =>
            /\ last'.op = "CreateGoal" /\ last'.status = 201
            /\ last'.parentId.k = "val"
            /\ goal_relations' \ goal_relations = {<<last'.parentId.v, last'.id>>}]_vars

\* a sub-goal soft-deleted after its parent was: the edge between them is
\* still there
C21_Witness ==
    /\ last.op = "SoftDelete" /\ last.status = 204
    /\ \E e \in goal_relations :
          e[2] = last.id /\ goals[e[1]].is_active = 0 /\ goals[e[2]].is_active = 0

----------------------------------------------------------------------------
(* C24 *)

\* C24: LogProgress answers NotFound exactly when the goal id is unknown and
\* ValidationError exactly when the goal exists and the value is undefined or
\* null; either way no log row is written and no goal changes; a value of 0
\* on an existing goal is accepted.
C24_LogProgressErrors ==
    [][last'.op = "LogProgress" =>
         /\ last'.status \in {201, 400, 404}
         /\ last'.status = 404 <=> last'.id \notin DOMAIN goals
         /\ last'.status = 400 <=>
               last'.id \in DOMAIN goals /\ last'.value \in {Undefined, JsNull}
         /\ last'.status # 201 => goals' = goals /\ goal_logs' = goal_logs
         /\ (last'.id \in DOMAIN goals /\ last'.value = Num(0)) =>
               /\ last'.status = 201
               /\ \E l \in goal_logs' : l.id = last'.logId /\ l.value = 0]_vars

\* a null value refused on a goal that already has a log
C24_Witness ==
    /\ last.op = "LogProgress" /\ last.status = 400
    /\ last.value = JsNull
    /\ \E l \in goal_logs : l.goal_id = last.id

----------------------------------------------------------------------------
(* C25 *)

\* C25: EditLog answers NotFound exactly when the goal id is unknown, the log
\* id is unknown, or the log belongs to another goal; a NotFound changes no
\* log and no goal.
C25_EditLogNotFound ==
    [][last'.op = "EditLog" =>
         /\ last'.status = 404 <=>
               \/ last'.id \notin DOMAIN goals
               \/ \A l \in goal_logs : l.id = last'.logId => l.goal_id # last'.id
         /\ last'.status = 404 => goals' = goals /\ goal_logs' = goal_logs]_vars

\* an edit refused for a log that exists, addressed through another existing
\* goal
C25_Witness ==
    /\ last.op = "EditLog" /\ last.status = 404
    /\ last.id \in DOMAIN goals
    /\ \E l \in goal_logs : l.id = last.logId /\ l.goal_id # last.id

----------------------------------------------------------------------------
(* C26 *)

\* what a statistics request answers for a goal: its row, its newest logs,
\* its sub-goals' rows and the date, and nothing else
StatsOfInputs(gs, rels, logs, id, t) ==
    calculateGoalStats(gs[id], recentLogs(logs, id),
                       [c \in subGoalsOf(gs, rels, id) |-> gs[c]], t)

----------------------------------------------------------------------------
(* C27 *)

\* a is reached from b by following at most n edges from child to parent
RECURSIVE IsAncestor(_, _, _, _)
IsAncestor(rels, a, b, n) ==
    /\ n > 0
    /\ \E e \in rels : e[2] = b /\ (e[1] = a \/ IsAncestor(rels, a, e[1], n - 1))

----------------------------------------------------------------------------
(* C29 *)

\* C29: every active goal is in the list of active top-level goals or in the
\* list of sub-goals of some active goal.
C29_ActiveGoalsListed ==
    \A g \in DOMAIN goals :
       goals[g].is_active = 1 =>
          \/ g \in activeTopLevel(goals, goal_relations)
          \/ \E p \in DOMAIN goals :
                goals[p].is_active = 1 /\ g \in subGoalsOf(goals, goal_relations, p)

----------------------------------------------------------------------------
(* C28 *)

\* C28: right after a LogProgress on a frequency goal, the stored
\* current_value is the periodProgress.current a statistics request on the
\* same day answers, for every frequency_period and every log date.
C28_CachedEqualsStats ==
    (Logged /\ goals[last.id].goal_type = "frequency") =>
        goals[last.id].current_value =
            StatsOfInputs(goals, goal_relations, goal_logs, last.id, now).periodProgress.current

----------------------------------------------------------------------------
(* Tasks and subtasks (server/src/routes/tasks.ts) *)

MaxTasks == 2              \* rows the tasks table may hold
MaxSubTasks == 2           \* rows the subtasks table may hold
NoSuchTask == 0            \* an id no task and no subtask has

\* the goal tables while the other routes are exercised
EmptyGoalTables ==
    /\ goals = <<>>
    /\ goal_relations = {}
    /\ goal_logs = {}
    /\ pc = [p \in Procs |-> "idle"]
    /\ local = [p \in Procs |-> NoLocal]
    /\ stats = NoStats

\* uuidv4(): an id no row of the table has
NextTaskId(ts) == CHOOSE i \in 1 .. (Cardinality(DOMAIN ts) + 1) : i \notin DOMAIN ts
NextSubTaskId(sts) ==
    CHOOSE i \in 1 .. (Cardinality(sts) + 1) : \A st \in sts : st.id # i

\* INSERT INTO tasks (id, parent_id, title, category, deadline)
NewTaskRow(title, category) ==
    [parent_id |-> SqlNull, title |-> title, category |-> category,
     deadline |-> SqlNull, is_completed |-> 0]

\* POST /
CreateTask(body) ==
    /\ IF body.title.k # "val" \/ body.title.s = ""
       THEN /\ last' = [op |-> "CreateTask", status |-> 400, title |-> body.title]
            /\ UNCHANGED tasks
       ELSE /\ Cardinality(DOMAIN tasks) < MaxTasks
            /\ tasks' = tasks @@
                 (NextTaskId(tasks) :> NewTaskRow(body.title.s, StrOr(body.category, "Personal")))
            /\ last' = [op |-> "CreateTask", status |-> 201, id |-> NextTaskId(tasks)]
    /\ UNCHANGED <<goalTables, now, wallClock, subtasks, work_logs, recurring_expenses, expenses>>

\* SELECT COUNT(*) FROM subtasks WHERE task_id = ? AND completed = 0
incompleteSubTasks(sts, id) ==
    Cardinality({st \in sts : st.task_id = id /\ st.completed = 0})

\* if (isCompleted === true) { ... if (count > 0) return 400 } (tasks.ts:105-118)
completionRefused(sts, id, completing) ==
    completing = Bool(TRUE) /\ incompleteSubTasks(sts, id) > 0

\* PATCH /:id
UpdateTask(id, body) ==
    /\ IF id \notin DOMAIN tasks
       THEN /\ last' = [op |-> "UpdateTask", status |-> 404, id |-> id]
            /\ UNCHANGED tasks
       ELSE IF completionRefused(subtasks, id, body.isCompleted)
       THEN /\ last' = [op |-> "UpdateTask", status |-> 400, id |-> id, body |-> body]
            /\ UNCHANGED tasks
       ELSE /\ tasks' = [tasks EXCEPT ![id] =
                 [@ EXCEPT !.title = updatedColumn(body.title, @, body.title.s),
                           !.category = updatedColumn(body.category, @, body.category.s),
                           !.deadline = updatedColumn(body.deadline, @, body.deadline),
                           !.is_completed = updatedColumn(body.isCompleted, @,
                                               IF body.isCompleted.b THEN 1 ELSE 0)]]
            /\ last' = [op |-> "UpdateTask", status |-> 200, id |-> id, body |-> body]
    /\ UNCHANGED <<goalTables, now, wallClock, subtasks, work_logs, recurring_expenses, expenses>>

\* DELETE /:id; subtasks.task_id REFERENCES tasks(id) ON DELETE CASCADE
DeleteTask(id) ==
    /\ IF id \notin DOMAIN tasks
       THEN /\ last' = [op |-> "DeleteTask", status |-> 404, id |-> id]
            /\ UNCHANGED <<tasks, subtasks>>
       ELSE /\ tasks' = [t \in DOMAIN tasks \ {id} |-> tasks[t]]
            /\ subtasks' = {st \in subtasks : st.task_id # id}
            /\ last' = [op |-> "DeleteTask", status |-> 204, id |-> id]
    /\ UNCHANGED <<goalTables, now, wallClock, work_logs, recurring_expenses, expenses>>

\* POST /:taskId/subtasks
AddSubTask(taskId, text) ==
    /\ IF taskId \notin DOMAIN tasks
       THEN /\ last' = [op |-> "AddSubTask", status |-> 404, id |-> taskId]
            /\ UNCHANGED <<tasks, subtasks>>
       ELSE IF text.k # "val" \/ text.s = ""
       THEN /\ last' = [op |-> "AddSubTask", status |-> 400, id |-> taskId]
            /\ UNCHANGED <<tasks, subtasks>>
       ELSE /\ Cardinality(subtasks) < MaxSubTasks
            /\ subtasks' = subtasks \cup
                 {[id |-> NextSubTaskId(subtasks), task_id |-> taskId,
                   text |-> text.s, completed |-> 0]}
            /\ tasks' = IF tasks[taskId].is_completed = 1
                        THEN [tasks EXCEPT ![taskId].is_completed = 0]
                        ELSE tasks
            /\ last' = [op |-> "AddSubTask", status |-> 201, id |-> taskId,
                        subTaskId |-> NextSubTaskId(subtasks)]
    /\ UNCHANGED <<goalTables, now, wallClock, work_logs, recurring_expenses, expenses>>

\* PATCH /:taskId/subtasks/:subTaskId
UpdateSubTask(taskId, subTaskId, completed) ==
    /\ IF ~ \E st \in subtasks : st.id = subTaskId /\ st.task_id = taskId
       THEN /\ last' = [op |-> "UpdateSubTask", status |-> 404, id |-> taskId,
                        subTaskId |-> subTaskId]
            /\ UNCHANGED subtasks
       ELSE /\ subtasks' =
                 {IF st.id = subTaskId
                  THEN [st EXCEPT !.completed = updatedColumn(completed, @,
                                                   IF completed.b THEN 1 ELSE 0)]
                  ELSE st : st \in subtasks}
            /\ last' = [op |-> "UpdateSubTask", status |-> 200, id |-> taskId,
                        subTaskId |-> subTaskId, completed |-> completed]
    /\ UNCHANGED <<goalTables, now, wallClock, tasks, work_logs, recurring_expenses, expenses>>

\* DELETE /:taskId/subtasks/:subTaskId
DeleteSubTask(taskId, subTaskId) ==
    /\ IF ~ \E st \in subtasks : st.id = subTaskId /\ st.task_id = taskId
       THEN /\ last' = [op |-> "DeleteSubTask", status |-> 404, id |-> taskId,
                        subTaskId |-> subTaskId]
            /\ UNCHANGED subtasks
       ELSE /\ subtasks' = {st \in subtasks : st.id # subTaskId}
            /\ last' = [op |-> "DeleteSubTask", status |-> 204, id |-> taskId,
                        subTaskId |-> subTaskId]
    /\ UNCHANGED <<goalTables, now, wallClock, tasks, work_logs, recurring_expenses, expenses>>

\* an empty store
InitTasks ==
    /\ EmptyGoalTables
    /\ EmptyOtherTables
    /\ now = FirstDay
    /\ UTC
    /\ last = NoRequest

NoTaskUpdate == [title |-> NoNote, category |-> NoNote, deadline |-> NoDate, isCompleted |-> NoBool]

CreateTaskInputs == [title : {NoNote, Str("a")}, category : {NoNote}]
UpdateTaskInputs ==
    {[NoTaskUpdate EXCEPT !.isCompleted = c] : c \in {NoBool, Bool(TRUE), Bool(FALSE)}}
        \cup {[NoTaskUpdate EXCEPT !.title = Str("b")]}
TaskIdInputs == DOMAIN tasks \cup {NoSuchTask}
SubTaskIdInputs == {st.id : st \in subtasks} \cup {NoSuchTask}

NextTasks ==
    \/ \E body \in CreateTaskInputs : CreateTask(body)
    \/ \E id \in TaskIdInputs : \E body \in UpdateTaskInputs : UpdateTask(id, body)
    \/ \E id \in TaskIdInputs : DeleteTask(id)
    \/ \E taskId \in TaskIdInputs : \E text \in {NoNote, Str("a")} : AddSubTask(taskId, text)
    \/ \E taskId \in TaskIdInputs : \E subTaskId \in SubTaskIdInputs :
       \E completed \in {NoBool, Bool(TRUE), Bool(FALSE)} :
          UpdateSubTask(taskId, subTaskId, completed)
    \/ \E taskId \in TaskIdInputs : \E subTaskId \in SubTaskIdInputs :
          DeleteSubTask(taskId, subTaskId)

SpecTasks == InitTasks /\ [][NextTasks]_vars

----------------------------------------------------------------------------
(* C22 *)

\* C22: no task is completed while one of its subtasks is incomplete.
C22_CompletedHasNoIncompleteSubTask ==
    \A t \in DOMAIN tasks :
       tasks[t].is_completed = 1 => incompleteSubTasks(subtasks, t) = 0

----------------------------------------------------------------------------
(* Work logs (server/src/routes/workLogs.ts) *)

WorkLogDays == 2           \* days the work log dates range over
NoSuchWorkLog == 0         \* an id no work log has

WorkLogDates == {toISODate(d) : d \in FirstDay .. (FirstDay + WorkLogDays - 1)}

\* !missedOpportunityNote, !newNote
noteMissing(note) == note.k # "val" \/ note.s = ""

\* a ?? b
NullishOr(a, b) == IF a.k = "val" THEN a ELSE b

\* integrity_score INTEGER CHECK (integrity_score IN (0, 1))
ScoreCheckFails(score) == score.k = "val" /\ score.v \notin {0, 1}

\* POST /
LogWorkDay(body) ==
    LET date == IF body.logDate.k = "val" THEN body.logDate.d ELSE getToday(now)
        existing == {l \in work_logs : l.log_date = date}
        written == [integrity_score |-> body.integrityScore,
                    missed_opportunity_note |-> NoteOrNull(body.missedOpportunityNote),
                    success_note |-> NoteOrNull(body.successNote)]
    IN  /\ IF body.integrityScore \notin {Num(0), Num(1)}
           THEN /\ last' = [op |-> "LogWorkDay", status |-> 400, body |-> body]
                /\ UNCHANGED work_logs
           ELSE IF body.integrityScore = Num(0) /\ noteMissing(body.missedOpportunityNote)
           THEN /\ last' = [op |-> "LogWorkDay", status |-> 400, body |-> body]
                /\ UNCHANGED work_logs
           ELSE /\ work_logs' =
                     IF existing # {}
                     THEN {IF l.log_date = date
                           THEN written @@ l
                           ELSE l : l \in work_logs}
                     ELSE work_logs \cup
                            {written @@ [id |-> Cardinality(work_logs) + 1, log_date |-> date]}
                /\ last' = [op |-> "LogWorkDay", status |-> IF existing # {} THEN 200 ELSE 201,
                            body |-> body]
        /\ UNCHANGED <<goalTables, now, wallClock, tasks, subtasks, recurring_expenses, expenses>>

\* the row UPDATE work_logs SET ... WHERE id = ? leaves (workLogs.ts:126-147)
UpdatedWorkLogRow(row, body) ==
    [row EXCEPT
       !.integrity_score = updatedColumn(body.integrityScore, @, body.integrityScore),
       !.missed_opportunity_note =
           updatedColumn(body.missedOpportunityNote, @, body.missedOpportunityNote),
       !.success_note = updatedColumn(body.successNote, @, body.successNote)]

\* PATCH /:id
UpdateWorkLog(id, body) ==
    LET existing == CHOOSE l \in work_logs : l.id = id
        newScore == NullishOr(body.integrityScore, existing.integrity_score)
        newNote == NullishOr(body.missedOpportunityNote, existing.missed_opportunity_note)
    IN  /\ IF ~ \E l \in work_logs : l.id = id
           THEN /\ last' = [op |-> "UpdateWorkLog", status |-> 404, id |-> id]
                /\ UNCHANGED work_logs
           ELSE IF newScore = Num(0) /\ noteMissing(newNote)
           THEN /\ last' = [op |-> "UpdateWorkLog", status |-> 400, id |-> id, body |-> body]
                /\ UNCHANGED work_logs
           ELSE IF ScoreCheckFails(body.integrityScore)
           THEN \* CHECK constraint failed: the catch block answers
                /\ last' = [op |-> "UpdateWorkLog", status |-> 500, id |-> id, body |-> body]
                /\ UNCHANGED work_logs
           ELSE /\ work_logs' = {IF l.id = id THEN UpdatedWorkLogRow(l, body) ELSE l :
                                   l \in work_logs}
                /\ last' = [op |-> "UpdateWorkLog", status |-> 200, id |-> id, body |-> body]
        /\ UNCHANGED <<goalTables, now, wallClock, tasks, subtasks, recurring_expenses, expenses>>

\* an empty store
InitWorkLogs ==
    /\ EmptyGoalTables
    /\ EmptyOtherTables
    /\ now = FirstDay
    /\ UTC
    /\ last = NoRequest

ScoreInputs == {Undefined, JsNull, Num(0), Num(1), Num(2)}
MissedNoteInputs == {NoNote, SqlNull, Str(""), Str("a")}
WorkLogInputs ==
    [logDate : {NoDate} \cup {DateStr(d) : d \in WorkLogDates},
     integrityScore : ScoreInputs, missedOpportunityNote : MissedNoteInputs,
     successNote : {NoNote}]
WorkLogUpdateInputs ==
    [integrityScore : ScoreInputs, missedOpportunityNote : MissedNoteInputs,
     successNote : {NoNote, Str("a")}]
WorkLogIdInputs == {l.id : l \in work_logs} \cup {NoSuchWorkLog}

NextWorkLogs ==
    \/ \E body \in WorkLogInputs : LogWorkDay(body)
    \/ \E id \in WorkLogIdInputs : \E body \in WorkLogUpdateInputs : UpdateWorkLog(id, body)

SpecWorkLogs == InitWorkLogs /\ [][NextWorkLogs]_vars

----------------------------------------------------------------------------
(* C23 *)

\* C23: every stored work log with integrity_score 0 has a non-empty
\* missed_opportunity_note.
C23_ZeroScoreHasNote ==
    \A l \in work_logs :
       l.integrity_score = Num(0) => ~noteMissing(l.missed_opportunity_note)

----------------------------------------------------------------------------
(* Recurring expenses: POST /recurring-expenses/generate *)

MaxTemplates == 2          \* rows the recurring_expenses table holds

\* (today.getDay() + 6) % 7: Mon=0 .. Sun=6, in the server's zone
dayOfWeek(t) == (getDay(t) + 6) % 7

\* today.getDate(), in the server's zone
dayOfMonth(t) == toISODate(t)[3]

\* new Date(today.getFullYear(), today.getMonth() + 1, 0).getDate()
lastDayOfMonth(t) ==
    CHOOSE n \in 28 .. 31 :
       /\ toISODate(t - dayOfMonth(t) + n)[2] = toISODate(t)[2]
       /\ toISODate(t - dayOfMonth(t) + n + 1)[2] # toISODate(t)[2]

\* shouldGenerate of one template on the local day t
shouldGenerate(recurring, t) ==
    IF recurring.recurrence_type = "weekly"
    THEN recurring.recurrence_day = dayOfWeek(t)
    ELSE IF recurring.recurrence_type = "monthly"
    THEN dayOfMonth(t) = Min(recurring.recurrence_day, lastDayOfMonth(t))
    ELSE FALSE

\* the templates one call generates an expense for: due on the local day and
\* last_generated_date other than today's UTC date string
generatedTemplates(rs, utcDay, localDay) ==
    {r \in DOMAIN rs :
        /\ rs[r].is_active = 1
        /\ shouldGenerate(rs[r], localDay)
        /\ rs[r].last_generated_date # DateStr(toISODate(utcDay))}

\* POST /generate
GenerateRecurringExpenses ==
    LET generated == generatedTemplates(recurring_expenses, now, localNow)
        rank(r) == Cardinality({q \in generated : q <= r})
    IN  /\ expenses' = expenses \cup
              {[id |-> Cardinality(expenses) + rank(r),
                amount |-> recurring_expenses[r].amount,
                category |-> recurring_expenses[r].category,
                note |-> recurring_expenses[r].note,
                created_at |-> [utc |-> now, local |-> localNow]] : r \in generated}
        /\ recurring_expenses' =
              [r \in DOMAIN recurring_expenses |->
                  IF r \in generated
                  THEN [recurring_expenses[r] EXCEPT
                            !.last_generated_date = DateStr(toISODate(now))]
                  ELSE recurring_expenses[r]]
        /\ last' = [op |-> "GenerateRecurringExpenses", status |-> 200,
                    count |-> Cardinality(generated), localDay |-> localNow]
        /\ UNCHANGED <<goalTables, now, wallClock, tasks, subtasks, work_logs>>

\* the next midnight passes: the local one first east of UTC, the UTC one
\* first west of UTC, both at once in UTC
Midnight ==
    /\ now < FirstDay + NumDays - 1
    /\ IF zone = 0 THEN now' = now + 1 /\ localNow' = localNow + 1
       ELSE IF zone = 1
       THEN IF localNow = now THEN localNow' = localNow + 1 /\ now' = now
            ELSE now' = now + 1 /\ localNow' = localNow
       ELSE IF localNow = now THEN now' = now + 1 /\ localNow' = localNow
            ELSE localNow' = localNow + 1 /\ now' = now
    /\ last' = [op |-> "Midnight", status |-> 0]
    /\ UNCHANGED <<goalTables, otherTables, zone>>

\* the rows POST / and PUT /:id leave: weekly on a day 0..6, monthly on a day
\* 1..31, active or not, never generated; the amount tells the templates apart
TemplateRows(id) ==
    {[amount |-> id, category |-> "Food", note |-> SqlNull,
      recurrence_type |-> t[1], recurrence_day |-> t[2], is_active |-> a,
      last_generated_date |-> NullDate] :
        t \in {<<"weekly", 0>>, <<"weekly", 6>>, <<"monthly", 1>>, <<"monthly", 31>>},
        a \in {0, 1}}

InitExpenses ==
    /\ EmptyGoalTables
    /\ tasks = <<>> /\ subtasks = {} /\ work_logs = {} /\ expenses = {}
    /\ \E n \in 1 .. MaxTemplates :
          recurring_expenses \in {rs \in [1 .. n -> UNION {TemplateRows(i) : i \in 1 .. n}] :
                                     \A i \in 1 .. n : rs[i] \in TemplateRows(i)}
    /\ now = FirstDay
    /\ localNow = now
    /\ zone \in {-1, 0, 1}
    /\ last = NoRequest

NextExpenses == GenerateRecurringExpenses \/ Midnight

SpecExpenses == InitExpenses /\ [][NextExpenses]_vars

----------------------------------------------------------------------------
(* C30 *)

\* the expenses a template yielded on a local day
Yielded(r, day) ==
    {e \in expenses : e.amount = recurring_expenses[r].amount /\ e.created_at.local = day}

\* C30: a generate call that follows a completed generate call on the same
\* day creates no expense, and every template has yielded at most one expense
\* on each day on which it is due and none on a day on which it is not.
C30_OncePerDueDay ==
    /\ \A r \in DOMAIN recurring_expenses : \A day \in Days :
          Cardinality(Yielded(r, day)) <=
             IF recurring_expenses[r].is_active = 1 /\ shouldGenerate(recurring_expenses[r], day)
             THEN 1 ELSE 0
    /\ last.op = "GenerateRecurringExpenses" =>
          generatedTemplates(recurring_expenses, now, localNow) = {}

====
